---- MODULE Spec2Model ----
\* Mini order processing service: the product catalog, the order store and the
\* order transaction (validation, pricing, persistence, stock decrement).
\*
\* Money: catalog prices are whole currency units; every amount the service
\* computes (unit_price, subtotal, shipping_fee, total_amount) is carried in
\* hundredths of a unit, so that price * (1 - BULK_DISCOUNT_PERCENT / 100) is
\* exact: price * (100 - BULK_DISCOUNT_PERCENT). Floating-point rounding of the
\* Python floats is not modelled.
EXTENDS Integers, Sequences, FiniteSets, TLC

VARIABLES
    products,     \* table "products": Seq of [price, inventory], id = position
    orders,       \* table "orders": Seq of [subtotal, shipping_fee, total_amount], id = position
    order_items,  \* table "order_items": Seq of [order_id, product_id, quantity, unit_price, discount_applied]
    call,         \* the HTTP exchange in flight: request, response, tables before the handler ran
    supplied,     \* history: per product, inventory at creation plus accepted adjustments
    sess,         \* concurrent database sessions (used by ConcSpec only)
    heap,         \* storage order of the products table: product ids as a scan returns them
    created,      \* history: per order, the request and the response of its create_order
    proc          \* the service process: environment, start-up state, loaded pricing parameters

vars == <<products, orders, order_items, call, supplied, sess, heap, created, proc>>

----------------------------------------------------------------------------
\* Bounds of the model

MaxStock == 5            \* largest inventory a product is created with or adjusted to
MaxQty == 5              \* largest quantity of an order line
MaxDelta == 1            \* largest inventory adjustment, up or down

CatalogIds == {1, 2}     \* ids the products table has room for
OrderIds == {1}          \* ids the orders table has room for
LineCounts == {0, 1, 2}  \* number of lines of an order request
PriceSet == {10, 25}     \* catalog prices
Sessions == {1, 2}       \* concurrent database sessions

\* Program constants

BULK_DISCOUNT_THRESHOLD == 5
BULK_DISCOUNT_PERCENT == 10
FREE_SHIPPING_THRESHOLD == 50
SHIPPING_FEE == 5
Hundredths == 100

----------------------------------------------------------------------------
\* Requests

\* product ids of requests: the catalog's and one the catalog never holds
ProductIds == CatalogIds \cup {Cardinality(CatalogIds) + 1}
\* boundary values: rejected by the schema, smallest, just below the bulk
\* threshold, and from the threshold up
Quantities ==
    {0 - 1, 0, 1, BULK_DISCOUNT_THRESHOLD - 1} \cup (BULK_DISCOUNT_THRESHOLD..MaxQty)
OrderItemCreate == [product_id : ProductIds, quantity : Quantities]
OrderCreate == UNION {[1..n -> OrderItemCreate] : n \in LineCounts}
Deltas == (0 - MaxDelta)..MaxDelta

\* What the storage does to the handler's flush and commit ("none" also when
\* the handler returns before it reaches the storage write).
StorageFaults ==
    {"none", "flush:IntegrityError", "flush:OperationalError",
     "commit:IntegrityError", "commit:OperationalError"}

NoBody == [id |-> 0]

Tables == [products |-> products, orders |-> orders, order_items |-> order_items]

Idle ==
    [op |-> "idle", req |-> <<>>, fault |-> "none", status |-> 0, detail |-> "",
     body |-> NoBody, pre |-> [products |-> <<>>, orders |-> <<>>, order_items |-> <<>>]]

Exchange(op, req, fault, status, detail, body) ==
    [op |-> op, req |-> req, fault |-> fault, status |-> status, detail |-> detail,
     body |-> body, pre |-> Tables]

----------------------------------------------------------------------------
\* Schema validation at the route (pydantic)

\* variant: a quantity of zero is accepted
OrderItemValid_NonNegative(item) == item.quantity >= 0

OrderItemValid(item) == item.quantity > 0

OrderCreateValid(items) == \A i \in 1..Len(items) : OrderItemValid(items[i])

----------------------------------------------------------------------------
\* OrderService.create_order: validation and pricing loop

ProductExists(prods, pid) == pid \in 1..Len(prods)

\* variant: the availability check is off by one
InsufficientInventory_OffByOne(prods, item) ==
    prods[item.product_id].inventory + 1 < item.quantity

InsufficientInventory(prods, item) ==
    prods[item.product_id].inventory < item.quantity

\* variant: existence of every product is checked before any stock level
FirstFailingLine_MissingFirst(prods, items, i) ==
    LET missing == {k \in i..Len(items) : items[k].product_id \notin 1..Len(prods)}
        short == {k \in i..Len(items) :
                    /\ items[k].product_id \in 1..Len(prods)
                    /\ prods[items[k].product_id].inventory < items[k].quantity}
        Min(S) == CHOOSE k \in S : \A m \in S : k <= m
    IN IF missing # {} THEN Min(missing)
       ELSE IF short # {} THEN Min(short)
       ELSE 0

\* variant: every line is examined and the last failing one is reported
FirstFailingLine_Last(prods, items, i) ==
    LET failing == {k \in i..Len(items) :
                      \/ items[k].product_id \notin 1..Len(prods)
                      \/ prods[items[k].product_id].inventory < items[k].quantity}
    IN IF failing = {} THEN 0
       ELSE CHOOSE k \in failing : \A m \in failing : m <= k

\* Index of the first line the loop raises on, 0 when every line passes.
RECURSIVE FirstFailingLine(_, _, _)
FirstFailingLine(prods, items, i) ==
    IF i > Len(items) THEN 0
    ELSE IF ~ProductExists(prods, items[i].product_id) THEN i
    ELSE IF InsufficientInventory(prods, items[i]) THEN i
    ELSE FirstFailingLine(prods, items, i + 1)

\* variant: the threshold itself does not qualify
DiscountApplied_Strict(quantity) == quantity > BULK_DISCOUNT_THRESHOLD

DiscountApplied(quantity) == quantity >= BULK_DISCOUNT_THRESHOLD

UnitPrice(price, quantity) ==
    IF DiscountApplied(quantity)
    THEN price * (Hundredths - BULK_DISCOUNT_PERCENT)
    ELSE price * Hundredths

PricedItem(prods, item) ==
    [product_id |-> item.product_id,
     quantity |-> item.quantity,
     unit_price |-> UnitPrice(prods[item.product_id].price, item.quantity),
     discount_applied |-> DiscountApplied(item.quantity)]

\* variant: eligibility decided on the product's quantity over all lines
PricedItems_Aggregated(prods, items) ==
    [i \in 1..Len(items) |->
        LET same == {k \in 1..Len(items) : items[k].product_id = items[i].product_id}
            RECURSIVE Total(_)
            Total(S) == IF S = {} THEN 0
                        ELSE LET k == CHOOSE k \in S : TRUE
                             IN items[k].quantity + Total(S \ {k})
            bulk == Total(same) >= BULK_DISCOUNT_THRESHOLD
        IN [product_id |-> items[i].product_id,
            quantity |-> items[i].quantity,
            unit_price |-> IF bulk
                           THEN prods[items[i].product_id].price * (Hundredths - BULK_DISCOUNT_PERCENT)
                           ELSE prods[items[i].product_id].price * Hundredths,
            discount_applied |-> bulk]]

PricedItems(prods, items) == [i \in 1..Len(items) |-> PricedItem(prods, items[i])]

RECURSIVE Subtotal(_, _)
Subtotal(priced, i) ==
    IF i > Len(priced) THEN 0
    ELSE priced[i].unit_price * priced[i].quantity + Subtotal(priced, i + 1)

\* variant: a subtotal equal to the threshold still pays shipping
ShippingFee_Inclusive(subtotal) ==
    IF subtotal <= FREE_SHIPPING_THRESHOLD * Hundredths
    THEN SHIPPING_FEE * Hundredths
    ELSE 0

ShippingFee(subtotal) ==
    IF subtotal < FREE_SHIPPING_THRESHOLD * Hundredths
    THEN SHIPPING_FEE * Hundredths
    ELSE 0

NewOrder(priced) ==
    LET subtotal == Subtotal(priced, 1)
        shipping_fee == ShippingFee(subtotal)
    IN [subtotal |-> subtotal, shipping_fee |-> shipping_fee,
        total_amount |-> subtotal + shipping_fee]

\* OrderService.create_order: persistence loop

\* variant: every line is attached to the first order
NewOrderItems_FirstOrder(order_id, priced) ==
    [i \in 1..Len(priced) |->
        [order_id |-> 1,
         product_id |-> priced[i].product_id,
         quantity |-> priced[i].quantity,
         unit_price |-> priced[i].unit_price,
         discount_applied |-> priced[i].discount_applied]]

NewOrderItems(order_id, priced) ==
    [i \in 1..Len(priced) |->
        [order_id |-> order_id,
         product_id |-> priced[i].product_id,
         quantity |-> priced[i].quantity,
         unit_price |-> priced[i].unit_price,
         discount_applied |-> priced[i].discount_applied]]

\* variant: the decrement of the line is not written
DecrementOne_NotWritten(prods, item) == prods

DecrementOne(prods, item) ==
    [prods EXCEPT ![item.product_id].inventory = @ - item.quantity]

\* variant: every line writes the inventory read before the loop minus its own quantity
DecrementInventory_LastLineOnly(prods, items, i) ==
    [p \in DOMAIN prods |->
        LET lines == {k \in i..Len(items) : items[k].product_id = p}
        IN IF lines = {} THEN prods[p]
           ELSE LET last == CHOOSE k \in lines : \A m \in lines : m <= k
                IN [prods[p] EXCEPT !.inventory = @ - items[last].quantity]]

RECURSIVE DecrementInventory(_, _, _)
DecrementInventory(prods, items, i) ==
    IF i > Len(items) THEN prods
    ELSE DecrementInventory(DecrementOne(prods, items[i]), items, i + 1)

\* variant: the lines of the order are loaded last row first
ItemsOfOrder_Reversed(rows, order_id) ==
    LET its == SelectSeq(rows, LAMBDA r : r.order_id = order_id)
    IN [i \in 1..Len(its) |-> its[Len(its) + 1 - i]]

\* db_order.items after the refresh: the rows of the order, in table order
ItemsOfOrder(rows, order_id) ==
    SelectSeq(rows, LAMBDA r : r.order_id = order_id)

ItemResponse(row) ==
    [product_id |-> row.product_id, quantity |-> row.quantity,
     unit_price |-> row.unit_price, discount_applied |-> row.discount_applied]

OrderResponse(order_id, order, rows) ==
    LET its == ItemsOfOrder(rows, order_id)
    IN [id |-> order_id,
        items |-> [i \in 1..Len(its) |-> ItemResponse(its[i])],
        subtotal |-> order.subtotal,
        shipping_fee |-> order.shipping_fee,
        total_amount |-> order.total_amount]

----------------------------------------------------------------------------
\* Process start: the import of the order service module reads the four pricing
\* parameters from the environment, in this order, and converts each with int()
\* or float(). os.getenv has no default argument: it returns None for a variable
\* that is not set, the conversion of None raises TypeError, that of a text that
\* is no numeral raises ValueError, and the import fails.

ParameterNames ==
    <<"BULK_DISCOUNT_THRESHOLD", "BULK_DISCOUNT_PERCENT",
      "FREE_SHIPPING_THRESHOLD", "SHIPPING_FEE">>

Parameters == {ParameterNames[i] : i \in 1..Len(ParameterNames)}

\* the values the pricing operators of this model work with
Configured ==
    [n \in Parameters |->
        CASE n = "BULK_DISCOUNT_THRESHOLD" -> BULK_DISCOUNT_THRESHOLD
          [] n = "BULK_DISCOUNT_PERCENT" -> BULK_DISCOUNT_PERCENT
          [] n = "FREE_SHIPPING_THRESHOLD" -> FREE_SHIPPING_THRESHOLD
          [] n = "SHIPPING_FEE" -> SHIPPING_FEE]

\* what os.getenv finds for a parameter
Unset == [kind |-> "unset", value |-> 0]
Text == [kind |-> "text", value |-> 0]
Numeral(n) == [kind |-> "numeral", value |-> n]

\* int(x), float(x)
Converts(x) == x.kind = "numeral"
ConversionError(x) == IF x.kind = "unset" THEN "TypeError" ELSE "ValueError"

\* index of the first parameter whose conversion raises, 0 when all convert
RECURSIVE FirstUnreadable(_, _)
FirstUnreadable(env, i) ==
    IF i > Len(ParameterNames) THEN 0
    ELSE IF ~Converts(env[ParameterNames[i]]) THEN i
    ELSE FirstUnreadable(env, i + 1)

Starting(env) ==
    [state |-> "starting", env |-> env, config |-> [n \in Parameters |-> 0], error |-> ""]

\* the module-level assignments of order_service.py
import_order_service ==
    /\ proc.state = "starting"
    /\ LET bad == FirstUnreadable(proc.env, 1) IN
       proc' = IF bad = 0
               THEN [proc EXCEPT !.state = "running",
                                 !.config = [n \in Parameters |-> proc.env[n].value]]
               ELSE [proc EXCEPT !.state = "failed",
                                 !.error = ConversionError(proc.env[ParameterNames[bad]])]
    /\ UNCHANGED <<products, orders, order_items, call, supplied, sess, heap, created>>

\* the process the request handlers below run in: started with every parameter set
Started ==
    [state |-> "running", env |-> [n \in Parameters |-> Numeral(Configured[n])],
     config |-> Configured, error |-> ""]

----------------------------------------------------------------------------
\* Storage order of the products table. The listing query has no ORDER BY, so
\* it returns the rows as the storage scans them. PostgreSQL appends inserted
\* rows, and writes an UPDATE as a new row version wherever the table has room:
\* an updated row may afterwards be scanned at any position, the other rows keep
\* their relative order. Orders and order lines are only ever inserted.

Untouched(hp, touched) == SelectSeq(hp, LAMBDA p : p \notin touched)

Rewritten(hp, touched) ==
    {h \in [1..Len(hp) -> {hp[k] : k \in 1..Len(hp)}] :
        /\ \A i, j \in 1..Len(hp) : i # j => h[i] # h[j]
        /\ Untouched(h, touched) = Untouched(hp, touched)}

\* products whose inventory attribute a successful create_order changes
Decremented(items) == {items[i].product_id : i \in 1..Len(items)}

\* SELECT ... OFFSET skip LIMIT limit over rows in scan order
Paginate(rows, skip, limit) ==
    [i \in 1..(IF Len(rows) - skip < limit
                THEN (IF Len(rows) - skip < 0 THEN 0 ELSE Len(rows) - skip)
                ELSE limit) |-> rows[skip + i]]

ProductResponse(prods, product_id) ==
    [id |-> product_id, price |-> prods[product_id].price,
     inventory |-> prods[product_id].inventory]

----------------------------------------------------------------------------
\* Sequential service: one request at a time, each handler one atomic step

Respond(op, req, fault, status, detail, body) ==
    call' = Exchange(op, req, fault, status, detail, body)

TablesUnchanged == UNCHANGED <<products, orders, order_items, heap, created>>

\* POST /orders/add_order
create_order(items, fault) ==
    /\ call.op = "idle"
    /\ UNCHANGED <<supplied, sess, proc>>
    /\ LET failing == FirstFailingLine(products, items, 1)
           priced == PricedItems(products, items)
           order_id == Len(orders) + 1
           db_order == NewOrder(priced)
           rows == order_items \o NewOrderItems(order_id, priced)
       IN
       IF ~OrderCreateValid(items) THEN
            /\ fault = "none"
            /\ Respond("create_order", items, fault, 422, "validation error", NoBody)
            /\ TablesUnchanged
       ELSE IF failing # 0 THEN
            /\ fault = "none"
            /\ TablesUnchanged
            \* the detail names the line the loop stopped at
            /\ IF ~ProductExists(products, items[failing].product_id)
               THEN Respond("create_order", items, fault, 404, "Product not found",
                            [id |-> 0, product_id |-> items[failing].product_id])
               ELSE Respond("create_order", items, fault, 400, "Not enough inventory",
                            [id |-> 0, product_id |-> items[failing].product_id,
                             requested |-> items[failing].quantity,
                             available |-> products[items[failing].product_id].inventory])
       ELSE IF fault \in {"flush:IntegrityError", "flush:OperationalError"} THEN
            \* line 74 is outside the try: the exception leaves the handler
            /\ TablesUnchanged
            /\ Respond("create_order", items, fault, 500, "Internal Server Error", NoBody)
       ELSE IF fault = "commit:IntegrityError" THEN
            /\ TablesUnchanged
            /\ Respond("create_order", items, fault, 400, "Database error", NoBody)
       ELSE IF fault = "commit:OperationalError" THEN
            \* not an IntegrityError: the except clause does not catch it
            /\ TablesUnchanged
            /\ Respond("create_order", items, fault, 500, "Internal Server Error", NoBody)
       ELSE
            /\ orders' = Append(orders, db_order)
            /\ order_items' = rows
            /\ products' = DecrementInventory(products, items, 1)
            /\ heap' \in Rewritten(heap, Decremented(items))
            /\ created' = Append(created, [request |-> items,
                                           response |-> OrderResponse(order_id, db_order, rows)])
            /\ Respond("create_order", items, fault, 201, "",
                       OrderResponse(order_id, db_order, rows))

\* PATCH /products/update_product_inventory/{product_id}
\* variant: the adjustment is applied with the wrong sign
NewInventory_Subtracted(inventory, quantity) == inventory - quantity

NewInventory(inventory, quantity) == inventory + quantity

\* variant: the lower limit is off by one
InvalidAdjustment_OffByOne(new_inventory) == new_inventory < 0 - 1

InvalidAdjustment(new_inventory) == new_inventory < 0

update_product_inventory(product_id, quantity, fault) ==
    /\ call.op = "idle"
    /\ UNCHANGED <<orders, order_items, sess, created, proc>>
    /\ LET req == [product_id |-> product_id, quantity |-> quantity] IN
       IF ~ProductExists(products, product_id) THEN
            /\ fault = "none"
            /\ UNCHANGED <<products, supplied, heap>>
            /\ Respond("update_product_inventory", req, fault, 404, "Product not found", NoBody)
       ELSE
         LET new_inventory == NewInventory(products[product_id].inventory, quantity) IN
         IF InvalidAdjustment(new_inventory) THEN
            /\ fault = "none"
            /\ UNCHANGED <<products, supplied, heap>>
            /\ Respond("update_product_inventory", req, fault, 400,
                       "Cannot reduce inventory below zero", NoBody)
         ELSE IF fault # "none" THEN
            /\ UNCHANGED <<products, supplied, heap>>
            /\ Respond("update_product_inventory", req, fault, 500,
                       "Error updating inventory", NoBody)
         ELSE
            /\ new_inventory <= MaxStock
            /\ products' = [products EXCEPT ![product_id].inventory = new_inventory]
            /\ supplied' = [supplied EXCEPT ![product_id] = @ + quantity]
            \* an unchanged attribute value is not written
            /\ heap' \in Rewritten(heap, IF quantity = 0 THEN {} ELSE {product_id})
            /\ Respond("update_product_inventory", req, fault, 200, "",
                       [id |-> product_id, price |-> products[product_id].price,
                        inventory |-> new_inventory])

\* POST /products/add_product
ProductCreateValid(product) == product.price > 0 /\ product.inventory >= 0

create_product(product, fault) ==
    /\ call.op = "idle"
    /\ Len(products) + 1 \in CatalogIds
    /\ UNCHANGED <<orders, order_items, sess, created, proc>>
    /\ IF ~ProductCreateValid(product) THEN
            /\ fault = "none"
            /\ UNCHANGED <<products, supplied, heap>>
            /\ Respond("create_product", product, fault, 422, "validation error", NoBody)
       ELSE IF fault = "commit:IntegrityError" THEN
            /\ UNCHANGED <<products, supplied, heap>>
            /\ Respond("create_product", product, fault, 400, "Product already exists", NoBody)
       ELSE IF fault = "commit:OperationalError" THEN
            /\ UNCHANGED <<products, supplied, heap>>
            /\ Respond("create_product", product, fault, 500, "Internal Server Error", NoBody)
       ELSE
            /\ products' = Append(products, product)
            /\ supplied' = Append(supplied, product.inventory)
            /\ heap' = Append(heap, Len(products) + 1)
            /\ Respond("create_product", product, fault, 201, "",
                       [id |-> Len(products) + 1, price |-> product.price,
                        inventory |-> product.inventory])

\* GET /products/get_product/{product_id}
get_product(product_id) ==
    /\ call.op = "idle"
    /\ UNCHANGED <<products, orders, order_items, supplied, sess, heap, created, proc>>
    /\ IF ~ProductExists(products, product_id)
       THEN Respond("get_product", product_id, "none", 404, "Product not found", NoBody)
       ELSE Respond("get_product", product_id, "none", 200, "",
                    ProductResponse(products, product_id))

\* GET /products/get_all_products?skip&limit
get_product_list(skip, limit) ==
    /\ call.op = "idle"
    /\ UNCHANGED <<products, orders, order_items, supplied, sess, heap, created, proc>>
    /\ LET ids == Paginate(heap, skip, limit) IN
       Respond("get_product_list", [skip |-> skip, limit |-> limit], "none", 200, "",
               [id |-> 0,
                rows |-> [i \in 1..Len(ids) |-> ProductResponse(products, ids[i])]])

\* GET /orders/get_all_order?skip&limit
get_all_orders(skip, limit) ==
    /\ call.op = "idle"
    /\ UNCHANGED <<products, orders, order_items, supplied, sess, heap, created, proc>>
    /\ LET ids == Paginate([o \in 1..Len(orders) |-> o], skip, limit) IN
       Respond("get_all_orders", [skip |-> skip, limit |-> limit], "none", 200, "",
               [id |-> 0,
                rows |-> [i \in 1..Len(ids) |->
                            OrderResponse(ids[i], orders[ids[i]], order_items)]])

\* GET /orders/get_order/{order_id}
get_order(order_id) ==
    /\ call.op = "idle"
    /\ UNCHANGED <<products, orders, order_items, supplied, sess, heap, created, proc>>
    /\ IF order_id \notin 1..Len(orders)
       THEN Respond("get_order", order_id, "none", 404, "Order not found", NoBody)
       ELSE Respond("get_order", order_id, "none", 200, "",
                    OrderResponse(order_id, orders[order_id], order_items))

\* The client reads the response; the next request may follow.
Return ==
    /\ call.op # "idle"
    /\ call' = Idle
    /\ UNCHANGED <<products, orders, order_items, supplied, sess, heap, created, proc>>

CommitFaults == {"none", "commit:IntegrityError", "commit:OperationalError"}
UpdateFaults == {"none", "commit:OperationalError"}
ProductCreate == [price : PriceSet \cup {0}, inventory : (0 - 1)..MaxStock]

\* the p-th price of PriceSet
SeededPrice(p) == CHOOSE x \in PriceSet : Cardinality({y \in PriceSet : y < x}) = p - 1

\* the products the runs create: the schema's boundary values, and for a valid
\* price the one of the product's place in the catalog
CatalogProductCreate ==
    {product \in ProductCreate :
        /\ Len(products) + 1 \in CatalogIds
        /\ product.price \in {0, SeededPrice(Len(products) + 1)}}

Init ==
    /\ products = <<>>
    /\ orders = <<>>
    /\ order_items = <<>>
    /\ call = Idle
    /\ supplied = <<>>
    /\ sess = [s \in Sessions |-> [pc |-> "idle", items |-> <<>>, line |-> 0,
                                    loaded |-> <<>>, status |-> 0]]
    /\ heap = <<>>
    /\ created = <<>>
    /\ proc = Started

Next ==
    \/ \E items \in OrderCreate, fault \in StorageFaults :
            Len(orders) + 1 \in OrderIds /\ create_order(items, fault)
    \/ \E product_id \in ProductIds, quantity \in Deltas, fault \in UpdateFaults :
            update_product_inventory(product_id, quantity, fault)
    \/ \E product \in CatalogProductCreate, fault \in CommitFaults :
            create_product(product, fault)
    \/ \E product_id \in ProductIds : get_product(product_id)
    \/ Return

Spec == Init /\ [][Next]_vars

----------------------------------------------------------------------------
\* Process start under any environment: every parameter is not set, set to a
\* text that is no number, set to the value of the pricing operators above, or
\* set to another number.

EnvironmentValues(n) == {Unset, Text, Numeral(Configured[n]), Numeral(Configured[n] + 1)}

Environments ==
    {env \in [Parameters -> UNION {EnvironmentValues(n) : n \in Parameters}] :
        \A n \in Parameters : env[n] \in EnvironmentValues(n)}

BootInit ==
    /\ products = <<>>
    /\ orders = <<>>
    /\ order_items = <<>>
    /\ call = Idle
    /\ supplied = <<>>
    /\ sess = [s \in Sessions |-> [pc |-> "idle", items |-> <<>>, line |-> 0,
                                    loaded |-> <<>>, status |-> 0]]
    /\ heap = <<>>
    /\ created = <<>>
    /\ proc \in {Starting(env) : env \in Environments}

BootNext == import_order_service

BootSpec == BootInit /\ [][BootNext]_vars

----------------------------------------------------------------------------
\* Concurrent service: every request runs in its own database session, one SQL
\* statement or commit per step. The engine is created without an isolation
\* level, so a session reads what is committed at the time of each SELECT, keeps
\* the rows it loaded in its identity map, and writes at commit the attribute
\* values it computed from them.

IdleSession == [pc |-> "idle", items |-> <<>>, line |-> 0, loaded |-> <<>>, status |-> 0]

\* requests of the concurrent runs: valid lines, each product at most once
ConcOrderCreate ==
    {items \in OrderCreate :
        /\ Len(items) > 0
        /\ OrderCreateValid(items)
        /\ \A i, j \in 1..Len(items) : i # j => items[i].product_id # items[j].product_id}

\* the session's identity map after a SELECT of product pid
Load(loaded, pid) ==
    [p \in DOMAIN loaded \cup {pid} |->
        IF p \in DOMAIN loaded THEN loaded[p] ELSE products[p].inventory]

BeginOrder(s, items) ==
    /\ sess[s].pc = "idle"
    /\ sess' = [sess EXCEPT ![s] = [pc |-> "validate", items |-> items, line |-> 1,
                                    loaded |-> <<>>, status |-> 0]]
    /\ UNCHANGED <<products, orders, order_items, call, supplied, heap, created, proc>>

\* one iteration of the validation loop
ValidateLine(s) ==
    /\ sess[s].pc = "validate"
    /\ sess[s].line <= Len(sess[s].items)
    /\ LET item == sess[s].items[sess[s].line] IN
       IF ~ProductExists(products, item.product_id) THEN
            sess' = [sess EXCEPT ![s].pc = "done", ![s].status = 404]
       ELSE
         LET loaded == Load(sess[s].loaded, item.product_id) IN
         IF loaded[item.product_id] < item.quantity
         THEN sess' = [sess EXCEPT ![s].pc = "done", ![s].status = 400, ![s].loaded = loaded]
         ELSE sess' = [sess EXCEPT ![s].line = @ + 1, ![s].loaded = loaded]
    /\ UNCHANGED <<products, orders, order_items, call, supplied, heap, created, proc>>

\* the order row is flushed and the loop decrements the loaded products
RECURSIVE DecrementLoaded(_, _, _)
DecrementLoaded(loaded, items, i) ==
    IF i > Len(items) THEN loaded
    ELSE DecrementLoaded([loaded EXCEPT ![items[i].product_id] = @ - items[i].quantity],
                         items, i + 1)

PersistOrder(s) ==
    /\ sess[s].pc = "validate"
    /\ sess[s].line > Len(sess[s].items)
    /\ sess' = [sess EXCEPT ![s].pc = "commit",
                            ![s].loaded = DecrementLoaded(@, sess[s].items, 1)]
    /\ UNCHANGED <<products, orders, order_items, call, supplied, heap, created, proc>>

\* commit: UPDATE of every changed product with the session's value, INSERT of
\* the order and its lines
Commit(s) ==
    /\ sess[s].pc = "commit"
    /\ LET priced == PricedItems(products, sess[s].items)
           order_id == Len(orders) + 1
       IN /\ products' = [p \in DOMAIN products |->
                            IF p \in DOMAIN sess[s].loaded
                            THEN [products[p] EXCEPT !.inventory = sess[s].loaded[p]]
                            ELSE products[p]]
          /\ orders' = Append(orders, NewOrder(priced))
          /\ order_items' = order_items \o NewOrderItems(order_id, priced)
          /\ heap' \in Rewritten(heap, Decremented(sess[s].items))
          /\ created' = Append(created,
                [request |-> sess[s].items,
                 response |-> OrderResponse(order_id, NewOrder(priced),
                                            order_items \o NewOrderItems(order_id, priced))])
    /\ sess' = [sess EXCEPT ![s].pc = "done", ![s].status = 201]
    /\ UNCHANGED <<call, supplied, proc>>

\* catalogs the concurrent runs start from: one product per catalog id, the
\* prices in ascending order, any inventory the seeding requests can set
SeededCatalogs ==
    {c \in [CatalogIds -> [price : PriceSet, inventory : 0..MaxStock]] :
        \A p \in CatalogIds : c[p].price = SeededPrice(p)}

ConcInit ==
    /\ products \in SeededCatalogs
    /\ orders = <<>>
    /\ order_items = <<>>
    /\ call = Idle
    /\ supplied = [p \in DOMAIN products |-> products[p].inventory]
    /\ sess = [s \in Sessions |-> IdleSession]
    /\ heap = [p \in DOMAIN products |-> p]
    /\ created = <<>>
    /\ proc = Started

ConcNext ==
    \/ \E s \in Sessions, items \in ConcOrderCreate : BeginOrder(s, items)
    \/ \E s \in Sessions : ValidateLine(s)
    \/ \E s \in Sessions : PersistOrder(s)
    \/ \E s \in Sessions : Commit(s)

ConcSpec == ConcInit /\ [][ConcNext]_vars

----------------------------------------------------------------------------
\* An order racing an inventory adjustment: one session runs create_order, the
\* other update_product_inventory, each one SQL statement or commit per step.

OrderSessions == {1}
AdjustSessions == {2}
InventoryUpdate == [product_id : CatalogIds, quantity : Deltas]

BeginAdjust(s, req) ==
    /\ sess[s].pc = "idle"
    /\ sess' = [sess EXCEPT ![s] = [pc |-> "adjust", items |-> <<req>>, line |-> 1,
                                    loaded |-> <<>>, status |-> 0]]
    /\ UNCHANGED <<products, orders, order_items, call, supplied, heap, created, proc>>

\* the SELECT of the product, the check and the assignment of the new inventory
ReadProduct(s) ==
    /\ sess[s].pc = "adjust"
    /\ LET req == sess[s].items[1] IN
       IF ~ProductExists(products, req.product_id) THEN
            sess' = [sess EXCEPT ![s].pc = "done", ![s].status = 404]
       ELSE
         LET loaded == Load(sess[s].loaded, req.product_id)
             new_inventory == NewInventory(loaded[req.product_id], req.quantity)
         IN IF InvalidAdjustment(new_inventory)
            THEN sess' = [sess EXCEPT ![s].pc = "done", ![s].status = 400,
                                      ![s].loaded = loaded]
            ELSE sess' = [sess EXCEPT ![s].pc = "adjust_commit",
                            ![s].loaded = [loaded EXCEPT ![req.product_id] = new_inventory]]
    /\ UNCHANGED <<products, orders, order_items, call, supplied, heap, created, proc>>

\* commit: UPDATE of the product with the session's value
CommitAdjust(s) ==
    /\ sess[s].pc = "adjust_commit"
    /\ LET req == sess[s].items[1] IN
       /\ products' = [products EXCEPT
                          ![req.product_id].inventory = sess[s].loaded[req.product_id]]
       /\ supplied' = [supplied EXCEPT ![req.product_id] = @ + req.quantity]
       /\ heap' \in Rewritten(heap, IF req.quantity = 0 THEN {} ELSE {req.product_id})
    /\ sess' = [sess EXCEPT ![s].pc = "done", ![s].status = 200]
    /\ UNCHANGED <<orders, order_items, call, created, proc>>

RaceNext ==
    \/ \E s \in OrderSessions, items \in ConcOrderCreate : BeginOrder(s, items)
    \/ \E s \in Sessions : ValidateLine(s)
    \/ \E s \in Sessions : PersistOrder(s)
    \/ \E s \in Sessions : Commit(s)
    \/ \E s \in AdjustSessions, req \in InventoryUpdate : BeginAdjust(s, req)
    \/ \E s \in Sessions : ReadProduct(s)
    \/ \E s \in Sessions : CommitAdjust(s)

RaceSpec == ConcInit /\ [][RaceNext]_vars

----------------------------------------------------------------------------
\* The order seeder: seed_orders runs in one session and one transaction. It
\* loads every product, then each iteration of its loop draws an order at
\* random, flushes it and subtracts the quantities from the loaded products;
\* the single commit after the loop writes everything. seed_database rolls the
\* transaction back when seed_orders raises.

SeedSessions == {1}
SeedOrderCounts == {1, 2}   \* values of num_orders
SeedItemCounts == 1..4      \* random.randint(1, 4)
\* random.randint(1, 8): its least and greatest value and the discount threshold
SeedQuantities == {1, BULK_DISCOUNT_THRESHOLD, 8}

\* random.sample(products, num_items): num_items different products in any
\* order; there is none when the catalog has fewer products (ValueError)
Sample(prods, num_items) ==
    {ps \in [1..num_items -> 1..Len(prods)] :
        \A i, j \in 1..num_items : i # j => ps[i] # ps[j]}

\* the order lines the loop adds for the drawn orders, ids from first_id on
RECURSIVE SeededItems(_, _, _, _)
SeededItems(prods, drawn, first_id, k) ==
    IF k > Len(drawn) THEN <<>>
    ELSE NewOrderItems(first_id + k - 1, PricedItems(prods, drawn[k]))
            \o SeededItems(prods, drawn, first_id, k + 1)

\* the count of the orders and the SELECT of all products
seed_orders(s, num_orders) ==
    /\ sess[s].pc = "idle"
    /\ IF Len(orders) > 0 \/ Len(products) = 0
       THEN sess' = [sess EXCEPT ![s].pc = "skipped"]
       ELSE sess' = [sess EXCEPT ![s] =
                        [pc |-> "seeding", items |-> <<>>, line |-> num_orders,
                         loaded |-> [p \in 1..Len(products) |-> products[p].inventory],
                         status |-> 0]]
    /\ UNCHANGED <<products, orders, order_items, call, supplied, heap, created, proc>>

\* one iteration of the loop; line counts the iterations left
SeedOrder(s, num_items) ==
    /\ sess[s].pc = "seeding"
    /\ sess[s].line > 0
    /\ IF Sample(products, num_items) = {}
       THEN sess' = [sess EXCEPT ![s] = [IdleSession EXCEPT !.pc = "failed"]]
       ELSE \E order_products \in Sample(products, num_items),
               quantity \in [1..num_items -> SeedQuantities] :
              LET items == [i \in 1..num_items |->
                              [product_id |-> order_products[i],
                               quantity |-> quantity[i]]]
              IN sess' = [sess EXCEPT ![s].items = Append(@, items),
                                      ![s].line = @ - 1,
                                      ![s].loaded = DecrementLoaded(@, items, 1)]
    /\ UNCHANGED <<products, orders, order_items, call, supplied, heap, created, proc>>

\* db.commit() after the loop: INSERT of the orders and their lines, UPDATE of
\* every product an order drew with the session's value
SeedCommit(s) ==
    /\ sess[s].pc = "seeding"
    /\ sess[s].line = 0
    /\ LET drawn == sess[s].items IN
       /\ products' = [p \in DOMAIN products |->
                         [products[p] EXCEPT !.inventory = sess[s].loaded[p]]]
       /\ orders' = orders \o [k \in 1..Len(drawn) |->
                                  NewOrder(PricedItems(products, drawn[k]))]
       /\ order_items' = order_items \o SeededItems(products, drawn, Len(orders) + 1, 1)
       /\ heap' \in Rewritten(heap, UNION {Decremented(drawn[k]) : k \in 1..Len(drawn)})
    /\ sess' = [sess EXCEPT ![s].pc = "seeded"]
    /\ UNCHANGED <<call, supplied, created, proc>>

\* db.close(); the script can be run again
SeedClose(s) ==
    /\ sess[s].pc \in {"skipped", "failed", "seeded"}
    /\ sess' = [sess EXCEPT ![s] = IdleSession]
    /\ UNCHANGED <<products, orders, order_items, call, supplied, heap, created, proc>>

\* catalogs seed_products leaves: every inventory is at least 1
StockedCatalogs == {c \in SeededCatalogs : \A p \in DOMAIN c : c[p].inventory >= 1}

SeedInit ==
    /\ products \in StockedCatalogs
    /\ orders = <<>>
    /\ order_items = <<>>
    /\ call = Idle
    /\ supplied = [p \in DOMAIN products |-> products[p].inventory]
    /\ sess = [s \in Sessions |-> IdleSession]
    /\ heap = [p \in DOMAIN products |-> p]
    /\ created = <<>>
    /\ proc = Started

SeedNext ==
    \/ \E s \in SeedSessions, num_orders \in SeedOrderCounts : seed_orders(s, num_orders)
    \/ \E s \in SeedSessions, num_items \in SeedItemCounts : SeedOrder(s, num_items)
    \/ \E s \in SeedSessions : SeedCommit(s)
    \/ \E s \in SeedSessions : SeedClose(s)

SeedSpec == SeedInit /\ [][SeedNext]_vars

----------------------------------------------------------------------------
\* The order ledger: the sequential service with room for a second order and
\* with the read operations on orders and the two listings. To keep the runs
\* small the requests are fewer: products are created with a full stock, order
\* lines ask for one unit or for the bulk threshold, and a request of two lines
\* asks for one unit on each line.

LedgerOrderIds == {1, 2}
LedgerProductCreate ==
    {product \in CatalogProductCreate :
        product.inventory = MaxStock /\ product.price > 0}
LedgerOrderCreate ==
    {items \in OrderCreate :
        /\ \A i \in 1..Len(items) :
              /\ items[i].product_id \in CatalogIds
              /\ items[i].quantity \in {1, BULK_DISCOUNT_THRESHOLD}
        /\ Len(items) = 2 => (items[1].quantity = 1 /\ items[2].quantity = 1)}
LedgerFaults == {"none", "commit:IntegrityError"}
Skips == {0, 1}
Limits == {1, 100}

LedgerNext ==
    \/ \E items \in LedgerOrderCreate, fault \in LedgerFaults :
            Len(orders) + 1 \in LedgerOrderIds /\ create_order(items, fault)
    \/ \E product_id \in CatalogIds, quantity \in Deltas, fault \in UpdateFaults :
            update_product_inventory(product_id, quantity, fault)
    \/ \E product \in LedgerProductCreate : create_product(product, "none")
    \/ \E order_id \in LedgerOrderIds \cup {Cardinality(LedgerOrderIds) + 1} :
            get_order(order_id)
    \/ \E skip \in Skips, limit \in Limits : get_product_list(skip, limit)
    \/ \E skip \in Skips, limit \in Limits : get_all_orders(skip, limit)
    \/ Return

LedgerSpec == Init /\ [][LedgerNext]_vars

----------------------------------------------------------------------------
\* Properties. They read the exchange in flight: the request, the response and
\* the tables as they were before the handler ran (call.pre).

NothingChanged == Tables = call.pre

OrderCall == call.op = "create_order" /\ \A i \in 1..Len(call.req) : call.req[i].quantity > 0

LineMissing(i) == call.req[i].product_id \notin 1..Len(call.pre.products)

LineShort(i) ==
    /\ ~LineMissing(i)
    /\ call.pre.products[call.req[i].product_id].inventory < call.req[i].quantity

MissingLines == {i \in 1..Len(call.req) : LineMissing(i)}
ShortLines == {i \in 1..Len(call.req) : LineShort(i)}
Least(S) == CHOOSE k \in S : \A m \in S : k <= m

RECURSIVE QuantityRequested(_, _, _)
QuantityRequested(items, p, i) ==
    IF i > Len(items) THEN 0
    ELSE (IF items[i].product_id = p THEN items[i].quantity ELSE 0)
         + QuantityRequested(items, p, i + 1)

RECURSIVE CatalogTotal(_, _, _)
CatalogTotal(items, prods, i) ==
    IF i > Len(items) THEN 0
    ELSE prods[items[i].product_id].price * Hundredths * items[i].quantity
         + CatalogTotal(items, prods, i + 1)

\* the rows stored for the order the response reports
StoredLines == SelectSeq(order_items, LAMBDA r : r.order_id = call.body.id)

OrderCreated == call.op = "create_order" /\ call.status = 201

\* C1: in every reachable state every product's inventory is >= 0.
C1_StockNeverNegative ==
    \A p \in 1..Len(products) : products[p].inventory >= 0

\* C2 as stated: a create_order request with a line that asks for more than the
\* product's stock is answered 400 "Not enough inventory" and changes nothing.
C2_ShortLineAlways400 ==
    (OrderCall /\ ShortLines # {}) =>
        /\ call.status = 400
        /\ call.detail = "Not enough inventory"
        /\ NothingChanged

\* C2 amended: such a request changes nothing and is answered 400 "Not enough
\* inventory", unless a line naming a product missing from the catalog comes
\* before every short line, and then it is answered 404 "Product not found".
C2_ShortLineRejected ==
    (OrderCall /\ ShortLines # {}) =>
        /\ NothingChanged
        /\ IF \E j \in MissingLines : j < Least(ShortLines)
           THEN call.status = 404 /\ call.detail = "Product not found"
           ELSE call.status = 400 /\ call.detail = "Not enough inventory"

C2_Witness ==
    /\ OrderCall
    /\ Len(call.req) = 2
    /\ ~LineMissing(1) /\ ~LineShort(1)
    /\ LineShort(2)
    /\ call.pre.products[call.req[2].product_id].inventory > 0
    /\ call.status = 400
    /\ NothingChanged

\* C3 as stated: a create_order request with a line that names a product not in
\* the catalog is answered 404 "Product not found" and changes nothing.
C3_MissingLineAlways404 ==
    (OrderCall /\ MissingLines # {}) =>
        /\ call.status = 404
        /\ call.detail = "Product not found"
        /\ NothingChanged

\* C3 amended: such a request changes nothing and is answered 404 "Product not
\* found", unless a line asking for more than its product's stock comes before
\* every such line, and then it is answered 400 "Not enough inventory".
C3_MissingLineRejected ==
    (OrderCall /\ MissingLines # {}) =>
        /\ NothingChanged
        /\ IF \E j \in ShortLines : j < Least(MissingLines)
           THEN call.status = 400 /\ call.detail = "Not enough inventory"
           ELSE call.status = 404 /\ call.detail = "Product not found"

C3_Witness ==
    /\ OrderCall
    /\ Len(call.req) = 2
    /\ ~LineMissing(1) /\ ~LineShort(1)
    /\ LineMissing(2)
    /\ Len(call.pre.products) = 2
    /\ call.status = 404
    /\ NothingChanged

\* C4: after a successful create_order every product's inventory is its prior
\* inventory minus the quantity the request asks of it (the sum over its lines,
\* 0 for a product the request does not name).
C4_StockDecrementedByRequest ==
    OrderCreated =>
        /\ Len(products) = Len(call.pre.products)
        /\ \A p \in 1..Len(products) :
              /\ products[p].inventory =
                    call.pre.products[p].inventory - QuantityRequested(call.req, p, 1)
              /\ products[p].price = call.pre.products[p].price

C4_Witness ==
    /\ OrderCreated
    /\ Len(products) = 2
    /\ Len(call.req) = 2
    /\ call.req[1].product_id = 1 /\ call.req[2].product_id = 1
    /\ products[1].inventory = call.pre.products[1].inventory
                                 - call.req[1].quantity - call.req[2].quantity
    /\ products[2] = call.pre.products[2]

\* C5: when the storage reports an integrity violation after pricing succeeded,
\* no order, line or decrement of the request is visible and the caller gets the
\* handled "Database error" response.
C5_IntegrityErrorHandled ==
    (/\ OrderCall
     /\ Len(call.req) > 0
     /\ call.fault \in {"flush:IntegrityError", "commit:IntegrityError"}) =>
        /\ NothingChanged
        /\ call.detail = "Database error"

\* units of product p in the persisted order lines
RECURSIVE UnitsSold(_, _, _)
UnitsSold(rows, p, i) ==
    IF i > Len(rows) THEN 0
    ELSE (IF rows[i].product_id = p THEN rows[i].quantity ELSE 0) + UnitsSold(rows, p, i + 1)

\* C6 (under ConcSpec): with concurrent create_order requests the units of a
\* product in committed orders never exceed the stock that was available, and
\* no inventory is negative.
C6_NoOversell ==
    \A p \in 1..Len(products) :
        /\ UnitsSold(order_items, p, 1) <= supplied[p]
        /\ products[p].inventory >= 0

\* C7: every line of a successful order with quantity >= BULK_DISCOUNT_THRESHOLD
\* is stored and returned with unit_price = catalog price * (1 - percent/100)
\* and discount_applied = TRUE.
C7_BulkLineDiscounted ==
    OrderCreated =>
        /\ Len(StoredLines) = Len(call.req)
        /\ Len(call.body.items) = Len(call.req)
        /\ \A i \in 1..Len(call.req) :
              call.req[i].quantity >= BULK_DISCOUNT_THRESHOLD =>
                LET discounted == call.pre.products[call.req[i].product_id].price
                                    * (Hundredths - BULK_DISCOUNT_PERCENT)
                IN /\ StoredLines[i].unit_price = discounted
                   /\ StoredLines[i].discount_applied
                   /\ call.body.items[i].unit_price = discounted
                   /\ call.body.items[i].discount_applied

C7_Witness ==
    /\ OrderCreated
    /\ Len(call.req) = 2
    /\ call.req[1].quantity < BULK_DISCOUNT_THRESHOLD
    /\ call.req[2].quantity >= BULK_DISCOUNT_THRESHOLD
    /\ call.body.items[2].discount_applied
    /\ ~call.body.items[1].discount_applied

\* C8: a successful order whose lines are all below BULK_DISCOUNT_THRESHOLD has
\* discount_applied = FALSE on every line and subtotal = sum of catalog price *
\* quantity, also when lines of one product together reach the threshold.
C8_SmallLinesUndiscounted ==
    (OrderCreated /\ \A i \in 1..Len(call.req) :
                        call.req[i].quantity < BULK_DISCOUNT_THRESHOLD) =>
        /\ Len(StoredLines) = Len(call.req)
        /\ \A i \in 1..Len(StoredLines) : ~StoredLines[i].discount_applied
        /\ \A i \in 1..Len(call.body.items) : ~call.body.items[i].discount_applied
        /\ orders[call.body.id].subtotal = CatalogTotal(call.req, call.pre.products, 1)
        /\ call.body.subtotal = CatalogTotal(call.req, call.pre.products, 1)

C8_Witness ==
    /\ OrderCreated
    /\ Len(call.req) = 2
    /\ call.req[1].product_id = call.req[2].product_id
    /\ call.req[1].quantity < BULK_DISCOUNT_THRESHOLD
    /\ call.req[2].quantity < BULK_DISCOUNT_THRESHOLD
    /\ call.req[1].quantity + call.req[2].quantity >= BULK_DISCOUNT_THRESHOLD
    /\ ~call.body.items[1].discount_applied
    /\ ~call.body.items[2].discount_applied

\* C9: for a successful order shipping_fee is SHIPPING_FEE when subtotal <
\* FREE_SHIPPING_THRESHOLD and 0 otherwise, and total_amount = subtotal +
\* shipping_fee, in the stored order and in the response.
C9_ShippingAndTotal ==
    OrderCreated =>
        LET o == orders[call.body.id] IN
        /\ o.shipping_fee = SHIPPING_FEE * Hundredths
              <=> o.subtotal < FREE_SHIPPING_THRESHOLD * Hundredths
        /\ o.shipping_fee # SHIPPING_FEE * Hundredths => o.shipping_fee = 0
        /\ o.total_amount = o.subtotal + o.shipping_fee
        /\ call.body.subtotal = o.subtotal
        /\ call.body.shipping_fee = o.shipping_fee
        /\ call.body.total_amount = o.total_amount

C9_Witness ==
    /\ OrderCreated
    /\ call.body.subtotal = FREE_SHIPPING_THRESHOLD * Hundredths
    /\ call.body.shipping_fee = 0
    /\ call.body.total_amount = call.body.subtotal

\* C10: update_product_inventory with current inventory + quantity < 0 is
\* answered 400 "Cannot reduce inventory below zero" and leaves every product's
\* inventory unchanged.
C10_NegativeAdjustmentRejected ==
    (/\ call.op = "update_product_inventory"
     /\ call.req.product_id \in 1..Len(call.pre.products)
     /\ call.pre.products[call.req.product_id].inventory + call.req.quantity < 0) =>
        /\ call.status = 400
        /\ call.detail = "Cannot reduce inventory below zero"
        /\ products = call.pre.products

C10_Witness ==
    /\ call.op = "update_product_inventory"
    /\ Len(call.pre.products) = 2
    /\ call.req.product_id \in 1..Len(call.pre.products)
    /\ call.pre.products[call.req.product_id].inventory = 0
    /\ call.req.quantity < 0
    /\ call.status = 400
    /\ products = call.pre.products

\* C11: update_product_inventory on an existing product with inventory +
\* quantity >= 0, when the storage accepts the commit, is answered 200 with
\* inventory = previous inventory + quantity; the products table then holds
\* that value, so the get_product that follows is answered 200 with the same
\* inventory, and get_product always answers with the stored inventory.
C11_AdjustmentApplied ==
    /\ (/\ call.op = "update_product_inventory"
        /\ call.req.product_id \in 1..Len(call.pre.products)
        /\ call.pre.products[call.req.product_id].inventory + call.req.quantity >= 0
        /\ call.fault = "none") =>
            LET stock == call.pre.products[call.req.product_id].inventory + call.req.quantity
            IN /\ call.status = 200
               /\ call.body.id = call.req.product_id
               /\ call.body.inventory = stock
               /\ ProductResponse(products, call.req.product_id).inventory = stock
               /\ \A p \in 1..Len(products) :
                     p # call.req.product_id => products[p] = call.pre.products[p]
    /\ (call.op = "get_product" /\ call.req \in 1..Len(call.pre.products)) =>
            /\ call.status = 200
            /\ call.body.id = call.req
            /\ call.body.inventory = call.pre.products[call.req].inventory
            /\ NothingChanged

C11_Witness ==
    /\ call.op = "update_product_inventory"
    /\ call.status = 200
    /\ Len(products) = 2
    /\ call.req.quantity < 0
    /\ call.pre.products[call.req.product_id].inventory = 1
    /\ call.body.inventory = 0
    /\ products[call.req.product_id].inventory = 0

\* C12: every persisted order owns at least one order line.
C12_EveryOrderHasLines ==
    \A o \in 1..Len(orders) : \E r \in 1..Len(order_items) : order_items[r].order_id = o

\* C13 (under LedgerSpec): every persisted order, with its lines, reads the
\* same as the response of the create_order that persisted it, whatever
\* create_order, create_product, update_product_inventory, get or list request
\* came after.
C13_OrdersImmutable ==
    /\ Len(created) = Len(orders)
    /\ \A o \in 1..Len(orders) :
          OrderResponse(o, orders[o], order_items) = created[o].response

C13_Witness ==
    /\ Len(orders) = 2
    /\ call.op = "create_order" /\ call.status = 201
    /\ Len(call.req) = 1
    /\ Len(created[1].request) = 2
    /\ Len(created[1].response.items) = 2
    /\ call.req[1].product_id = created[1].request[1].product_id
    /\ products[call.req[1].product_id].inventory = 0
    /\ OrderResponse(1, orders[1], order_items) = created[1].response

\* C14: a storage failure at the commit of create_order that the handler turns
\* into its "Database error" response is reported with a 5xx status.
C14_PersistenceErrorIsServerError ==
    (call.op = "create_order" /\ call.detail = "Database error") => call.status >= 500

\* the lines answer the request line by line
LinesAnswer(lines, items) ==
    /\ Len(lines) = Len(items)
    /\ \A i \in 1..Len(items) :
          /\ lines[i].product_id = items[i].product_id
          /\ lines[i].quantity = items[i].quantity

\* C15 (under LedgerSpec): the response of a successful create_order, and every
\* later get_order response for that order, has one line per requested line, in
\* request order, each with the product_id and quantity of that requested line.
C15_LinesInRequestOrder ==
    /\ OrderCreated => LinesAnswer(call.body.items, call.req)
    /\ (call.op = "get_order" /\ call.req \in 1..Len(call.pre.orders)) =>
          /\ call.status = 200
          /\ call.body.id = call.req
          /\ LinesAnswer(call.body.items, created[call.req].request)

C15_Witness ==
    /\ call.op = "get_order" /\ call.status = 200
    /\ call.req = 1
    /\ Len(orders) = 2
    /\ Len(created[1].request) = 2
    /\ created[1].request[1].product_id > created[1].request[2].product_id
    /\ call.body.items[1].product_id = created[1].request[1].product_id
    /\ call.body.items[2].product_id = created[1].request[2].product_id

\* C16: a create_order request with a line of quantity <= 0 is answered 422 and
\* changes nothing; every persisted order line has quantity > 0.
C16_NonPositiveQuantityRejected ==
    /\ (call.op = "create_order" /\ \E i \in 1..Len(call.req) : call.req[i].quantity <= 0) =>
          /\ call.status = 422
          /\ NothingChanged
    /\ \A r \in 1..Len(order_items) : order_items[r].quantity > 0

C16_Witness ==
    /\ call.op = "create_order"
    /\ Len(call.req) = 2
    /\ call.req[1].quantity > 0
    /\ ~LineMissing(1) /\ ~LineShort(1)
    /\ ~LineMissing(2)
    /\ call.req[2].quantity <= 0
    /\ call.status = 422
    /\ NothingChanged

\* ids of the rows of a listing response
ListedIds == [i \in 1..Len(call.body.rows) |-> call.body.rows[i].id]

\* C17 (under LedgerSpec): get_product_list(skip, limit) answers with the
\* products in id order without the first skip of them and at most limit of
\* them, also after inventories were changed; get_all_orders likewise.
C17_ListingInIdOrder ==
    /\ call.op = "get_product_list" =>
          ListedIds = Paginate([p \in 1..Len(products) |-> p], call.req.skip, call.req.limit)
    /\ call.op = "get_all_orders" =>
          ListedIds = Paginate([o \in 1..Len(orders) |-> o], call.req.skip, call.req.limit)

\* the documented defaults of the pricing parameters
DocumentedDefault ==
    [n \in Parameters |->
        CASE n = "BULK_DISCOUNT_THRESHOLD" -> 5
          [] n = "BULK_DISCOUNT_PERCENT" -> 10
          [] n = "FREE_SHIPPING_THRESHOLD" -> 50
          [] n = "SHIPPING_FEE" -> 5]

\* C18 (under BootSpec): when every parameter is either not set or set to a
\* number, the process starts, and each loaded parameter is the value of its
\* environment variable, or the documented default when the variable is not set.
C18_DefaultsWhenUnset ==
    (/\ proc.state # "starting"
     /\ \A n \in Parameters : proc.env[n].kind \in {"unset", "numeral"}) =>
        /\ proc.state = "running"
        /\ \A n \in Parameters :
              proc.config[n] = IF proc.env[n].kind = "unset" THEN DocumentedDefault[n]
                               ELSE proc.env[n].value

\* C19: a create_order request with invalid lines changes nothing and is
\* answered for its earliest invalid line: 404 "Product not found" naming that
\* line's product when the product is missing, otherwise 400 "Not enough
\* inventory" with that line's product, quantity and available inventory.
C19_EarliestInvalidLineReported ==
    (OrderCall /\ MissingLines \cup ShortLines # {}) =>
        LET first == Least(MissingLines \cup ShortLines) IN
        /\ NothingChanged
        /\ call.body.product_id = call.req[first].product_id
        /\ IF LineMissing(first)
           THEN call.status = 404 /\ call.detail = "Product not found"
           ELSE /\ call.status = 400 /\ call.detail = "Not enough inventory"
                /\ call.body.requested = call.req[first].quantity
                /\ call.body.available =
                      call.pre.products[call.req[first].product_id].inventory

C19_Witness ==
    /\ OrderCall
    /\ Len(call.req) = 2
    /\ LineShort(1)
    /\ LineMissing(2)
    /\ call.status = 400
    /\ call.body.product_id = call.req[1].product_id
    /\ call.body.requested = call.req[1].quantity
    /\ NothingChanged

\* C20: every storage failure of create_order after pricing, at the flush or at
\* the commit and of any exception class, changes nothing and is answered with
\* the handler's "Database error" response.
C20_StorageFailureTyped ==
    (OrderCall /\ call.fault # "none") =>
        /\ NothingChanged
        /\ call.detail = "Database error"

\* C21: create_order succeeds only if every product's inventory before the call
\* covers the quantities of all the request's lines of that product together; a
\* request that the schema accepts, names only catalog products and asks of some
\* product more in total than its inventory is answered 400 "Not enough
\* inventory" and changes nothing.
C21_TotalQuantityChecked ==
    /\ OrderCreated =>
          \A p \in 1..Len(call.pre.products) :
              QuantityRequested(call.req, p, 1) <= call.pre.products[p].inventory
    /\ (/\ OrderCall
        /\ MissingLines = {}
        /\ \E p \in 1..Len(call.pre.products) :
              QuantityRequested(call.req, p, 1) > call.pre.products[p].inventory) =>
          /\ call.status = 400
          /\ call.detail = "Not enough inventory"
          /\ NothingChanged

\* C22 (under LedgerSpec): for every product, inventory = inventory at creation
\* + the quantities of the accepted update_product_inventory calls on it - the
\* quantities of the persisted order lines that name it; a request that is
\* answered with an error leaves both sides as they were.
C22_StockConserved ==
    /\ Len(supplied) = Len(products)
    /\ \A p \in 1..Len(products) :
          products[p].inventory = supplied[p] - UnitsSold(order_items, p, 1)
    /\ (call.op # "idle" /\ call.status >= 400) => NothingChanged

C22_Witness ==
    /\ Len(orders) = 2
    /\ Len(products) = 2
    /\ call.op = "update_product_inventory" /\ call.status = 200
    /\ call.req.quantity < 0
    /\ supplied[call.req.product_id] = MaxStock
    /\ UnitsSold(order_items, call.req.product_id, 1) = 3
    /\ products[call.req.product_id].inventory = MaxStock - 3

\* C23 (under RaceSpec): when a create_order and an update_product_inventory
\* that ran concurrently have both succeeded, every product's inventory is its
\* initial inventory plus the adjustment minus the quantity ordered of it.
C23_NoLostUpdate ==
    (/\ \A s \in OrderSessions : sess[s].pc = "done" /\ sess[s].status = 201
     /\ \A s \in AdjustSessions : sess[s].pc = "done" /\ sess[s].status = 200) =>
        \A p \in 1..Len(products) :
            products[p].inventory = supplied[p] - UnitsSold(order_items, p, 1)

\* C24 (under SeedSpec): when seed_orders has committed its orders on a catalog
\* whose products all had an inventory of at least 1, every product's inventory
\* is at least 0.
C24_SeederKeepsStockNonNegative ==
    \A s \in SeedSessions :
        (/\ sess[s].pc = "seeded"
         /\ \A p \in 1..Len(supplied) : supplied[p] >= 1) =>
            \A p \in 1..Len(products) : products[p].inventory >= 0

====
